---- MODULE Spec2Model ----
(***************************************************************************)
(* The Pomodoro timer of src/app/page.tsx: one React function component    *)
(* (PomodoroTimer) whose state lives in useState hooks and whose timer     *)
(* logic lives in two useEffect callbacks.                                 *)
(*                                                                         *)
(* How React runs the component is part of the program's behaviour:        *)
(*   - a setState call only queues an update; the queued updates of a hook *)
(*     are applied in order by the next render (queue);                    *)
(*   - after a render, the effects whose dependencies changed are pending  *)
(*     (pendingEffects); they are flushed before the next render: first    *)
(*     every pending cleanup, then every pending body, in source order;    *)
(*   - a click or a change event is a discrete event: its handler, the     *)
(*     render and the effects it causes run to quiescence in one task      *)
(*     (Settle), so nothing interleaves with them;                         *)
(*   - a setInterval callback is a task of its own: its update is rendered *)
(*     by a later task and the effects of that render by yet another, so   *)
(*     clicks and further interval callbacks may run in between            *)
(*     (Tick, RenderStep, EffectsStep).                                    *)
(***************************************************************************)
EXTENDS Integers, Sequences, FiniteSets, TLC

\* Bounds of the exploration.
MaxCompleted == 4       \* Work sessions the user lets complete
MaxPending == 2         \* interval callbacks that may run before React renders

\* The code counts 60 one-second ticks per configured minute (`minutes * 60`,
\* `25 * 60`).  No branch of the code reads the factor: the countdown is only
\* compared with 0.  The exploration counts TicksPerMinute ticks per minute.
TicksPerMinute == 1

\* Texts the user may type into a duration field (e.target.value).
InputTexts == { <<"1">>, <<"-", "1">>, <<>> }

\* Texts the user may type into the task field.
TaskTexts == { <<>>, <<" ">>, <<" ", "a">> }

MaxInFlight == 1        \* wake-lock promises pending when the user starts again
MaxHeld == 1            \* wake locks held when the user starts again
MaxTasks == 3           \* tasks the user keeps in the list
MaxClock == 2           \* milliseconds the clock advances

\* What playNotificationSound may find: no audio context (the constructor
\* threw), a suspended one, a running one, or one whose play() is rejected.
AudioStates == {"missing", "suspended", "running", "blocked"}

\* type TimerMode, line 21
TimerMode == {"pomodoro", "shortBreak", "longBreak"}

DefaultPomodoro == 25
DefaultShortBreak == 5
DefaultLongBreak == 15
LongBreakEvery == 4

VARIABLES
    mode,                \* useState<TimerMode>
    timeLeft,            \* useState: seconds left
    isRunning,           \* useState: boolean
    completedPomodoros,  \* useState: number
    settings,            \* useState<TimerSettings>
    queue,               \* state updates queued and not yet rendered
    pendingEffects,      \* effects of the last render that have not run yet
    intervalRef,         \* intervalRef.current: an interval id, 0 for null
    intervals,           \* ids of the intervals that are set and not cleared
    lastOp,              \* history: the last event delivered
    lastArg,             \* history: its argument (the mode of a mode change)
    expired,             \* history: the mode whose expiry ran since the last event
    workExpiries,        \* history: runs of the expiry branch in mode pomodoro
    selected,            \* history: nextMode chosen by the last such run
    owed,                \* history: a tick brought the time to 0 while running,
                         \*          and since then neither has the expiry branch
                         \*          run nor has timeLeft been set anew
    scenario,            \* history: the interval callbacks run since Start was
                         \*          clicked in the initial state, -1 once any
                         \*          other event was delivered
    audio,               \* environment: what the audio sink is like
    wakeLockApi,         \* environment: "wakeLock" in navigator
    wakeLockRef,         \* wakeLockRef.current: a sentinel id, 0 for null
    held,                \* ids of the sentinels acquired and not released
    requests,            \* navigator.wakeLock.request promises not settled yet
    releasing,           \* sentinel.release promises not settled yet
    notified,            \* history: what the last expiry's notification did
    tasks,               \* useState<Task[]>
    newTask,             \* useState: the text of the task field
    now                  \* the reading of Date.now(), counted from page load

vars == << mode, timeLeft, isRunning, completedPomodoros, settings, queue,
           pendingEffects, intervalRef, intervals, lastOp, lastArg, expired,
           workExpiries, selected, owed, scenario, audio, wakeLockApi,
           wakeLockRef, held, requests, releasing, notified,
           tasks, newTask, now >>

-----------------------------------------------------------------------------
(* The component's state as one record, so that handlers, the render and   *)
(* the effects are functions from state to state.                          *)

World ==
    [ mode |-> mode, timeLeft |-> timeLeft, isRunning |-> isRunning,
      completedPomodoros |-> completedPomodoros, settings |-> settings,
      queue |-> queue, pendingEffects |-> pendingEffects,
      intervalRef |-> intervalRef, intervals |-> intervals,
      lastOp |-> lastOp, lastArg |-> lastArg, expired |-> expired,
      workExpiries |-> workExpiries, selected |-> selected, owed |-> owed,
      scenario |-> scenario, audio |-> audio, wakeLockApi |-> wakeLockApi,
      wakeLockRef |-> wakeLockRef, held |-> held, requests |-> requests,
      releasing |-> releasing, notified |-> notified ]

Install(w) ==
    /\ mode' = w.mode
    /\ timeLeft' = w.timeLeft
    /\ isRunning' = w.isRunning
    /\ completedPomodoros' = w.completedPomodoros
    /\ settings' = w.settings
    /\ queue' = w.queue
    /\ pendingEffects' = w.pendingEffects
    /\ intervalRef' = w.intervalRef
    /\ intervals' = w.intervals
    /\ lastOp' = w.lastOp
    /\ lastArg' = w.lastArg
    /\ expired' = w.expired
    /\ workExpiries' = w.workExpiries
    /\ selected' = w.selected
    /\ owed' = w.owed
    /\ scenario' = w.scenario
    /\ audio' = w.audio
    /\ wakeLockApi' = w.wakeLockApi
    /\ wakeLockRef' = w.wakeLockRef
    /\ held' = w.held
    /\ requests' = w.requests
    /\ releasing' = w.releasing
    /\ notified' = w.notified
    /\ UNCHANGED << tasks, newTask, now >>

\* No update queued: time/running/mode hold <<>> or <<value>>, decs counts the
\* queued `prev => prev - 1` that follow the last queued set of timeLeft,
\* completed counts the queued `prev => prev + 1`, settings the queued edits.
EmptyQueue ==
    [ time |-> <<>>, decs |-> 0, running |-> <<>>, mode |-> <<>>,
      completed |-> 0, settings |-> <<>> ]

\* useState initial values
InitialSettings ==
    [ pomodoro |-> DefaultPomodoro, shortBreak |-> DefaultShortBreak,
      longBreak |-> DefaultLongBreak, soundEnabled |-> TRUE ]

\* the literal each duration field falls back to (`|| 25`, `|| 5`, `|| 15`)
DefaultOf(field) ==
    CASE field = "pomodoro" -> DefaultPomodoro
      [] field = "shortBreak" -> DefaultShortBreak
      [] field = "longBreak" -> DefaultLongBreak

-----------------------------------------------------------------------------
(* The setState dispatchers.                                               *)

\* setTimeLeft(v): the queued decrements before it no longer count
setTimeLeft(w, v) ==
    [w EXCEPT !.queue.time = <<v>>, !.queue.decs = 0, !.owed = FALSE]

decTimeLeft(w) == [w EXCEPT !.queue.decs = @ + 1]

setIsRunning(w, b) == [w EXCEPT !.queue.running = <<b>>]

setMode(w, m) == [w EXCEPT !.queue.mode = <<m>>]

incCompletedPomodoros(w) == [w EXCEPT !.queue.completed = @ + 1]

setSettings(w, field, v) ==
    [w EXCEPT !.queue.settings = Append(@, [field |-> field, value |-> v])]

\* timeLeft once the queued updates are applied
QueuedTime(w) ==
    (IF w.queue.time = <<>> THEN w.timeLeft ELSE w.queue.time[1]) - w.queue.decs

RECURSIVE ApplyEdits(_, _)
ApplyEdits(s, edits) ==
    IF edits = <<>> THEN s
    ELSE ApplyEdits([s EXCEPT ![Head(edits).field] = Head(edits).value],
                    Tail(edits))

-----------------------------------------------------------------------------
(* Render: the queued updates become the component's state, and the        *)
(* effects whose dependency list changed become pending.                   *)

InitDeps(w) == << w.mode >>

CountdownDeps(w) ==
    << w.isRunning, w.timeLeft, w.mode, w.completedPomodoros,
       w.settings.soundEnabled >>

WakeLockDeps(w) == << w.isRunning >>

Render(w) ==
    LET q == w.queue
        n == [w EXCEPT
                !.mode = IF q.mode = <<>> THEN @ ELSE q.mode[1],
                !.timeLeft = QueuedTime(w),
                !.isRunning = IF q.running = <<>> THEN @ ELSE q.running[1],
                !.completedPomodoros = @ + q.completed,
                !.settings = ApplyEdits(@, q.settings),
                !.queue = EmptyQueue]
        \* setSettings always builds a new object, so the dependency
        \* `settings` of the first effect changes with every edit
        init == InitDeps(n) # InitDeps(w) \/ q.settings # <<>>
        countdown == CountdownDeps(n) # CountdownDeps(w)
        wakeLock == WakeLockDeps(n) # WakeLockDeps(w)
    IN  [n EXCEPT !.pendingEffects =
            @ \cup (IF init THEN {"init"} ELSE {})
              \cup (IF countdown THEN {"countdown"} ELSE {})
              \cup (IF wakeLock THEN {"wakeLock"} ELSE {})]

-----------------------------------------------------------------------------
(* The effects.                                                            *)

\* Mutant of InitEffect: the literal default instead of the configured minutes.
InitEffectDefault(w) == setTimeLeft(w, DefaultOf(w.mode) * TicksPerMinute)

\* "Initialize timer based on current mode"
InitEffect(w) == setTimeLeft(w, w.settings[w.mode] * TicksPerMinute)

\* an id no live interval has
FreshInterval(w) ==
    CHOOSE i \in 1..(Cardinality(w.intervals) + 1) : i \notin w.intervals

clearIntervalRef(w) ==
    IF w.intervalRef # 0
    THEN [w EXCEPT !.intervals = @ \ {w.intervalRef}]
    ELSE w

startInterval(w) ==
    LET id == FreshInterval(w)
    IN  [w EXCEPT !.intervalRef = id, !.intervals = @ \cup {id}]

\* Mutant of NextMode: the count before the increment decides the break.
NextModeStale(m, completed) ==
    IF m = "pomodoro"
    THEN IF completed % LongBreakEvery = 0 THEN "longBreak" ELSE "shortBreak"
    ELSE "pomodoro"

NextMode(m, completed) ==
    IF m = "pomodoro"
    THEN IF (completed + 1) % LongBreakEvery = 0 THEN "longBreak" ELSE "shortBreak"
    ELSE "pomodoro"

\* The notification is fire and forget: an async function whose body is one
\* try/catch.  Without a context it returns; a suspended context is resumed
\* first; a rejected play() is caught.
playNotificationSound(w) ==
    [w EXCEPT !.notified =
        IF w.audio \in {"suspended", "running"} THEN "played" ELSE "silent"]

notify(w) == IF w.settings.soundEnabled THEN playNotificationSound(w) ELSE w

\* Mutant of Expire: the expiry leaves the timer running.
ExpireRunning(w) ==
    LET a == notify(w)
        b == IF w.mode = "pomodoro"
             THEN [incCompletedPomodoros(a) EXCEPT
                     !.workExpiries = @ + 1,
                     !.selected = NextMode(w.mode, w.completedPomodoros)]
             ELSE a
        c == setMode(b, NextMode(w.mode, w.completedPomodoros))
    IN  [c EXCEPT !.expired = w.mode, !.owed = FALSE]

\* "Auto-switch modes when timer reaches 0"
Expire(w) ==
    LET a == notify(setIsRunning(w, FALSE))
        b == IF w.mode = "pomodoro"
             THEN [incCompletedPomodoros(a) EXCEPT
                     !.workExpiries = @ + 1,
                     !.selected = NextMode(w.mode, w.completedPomodoros)]
             ELSE a
        c == setMode(b, NextMode(w.mode, w.completedPomodoros))
    IN  [c EXCEPT !.expired = w.mode, !.owed = FALSE]

\* "Timer countdown logic"
CountdownEffect(w) ==
    LET a == IF w.isRunning /\ w.timeLeft > 0
             THEN startInterval(w)
             ELSE clearIntervalRef(w)
    IN  IF w.timeLeft = 0 /\ w.isRunning THEN Expire(a) ELSE a

\* Mutant of CountdownCleanup: the effect has no cleanup.
CountdownCleanupNone(w) == w

CountdownCleanup(w) == clearIntervalRef(w)

\* Mutant of requestWakeLock: without the API the timer is stopped again.
requestWakeLockOrStop(w) ==
    IF w.wakeLockApi /\ w.isRunning
    THEN [w EXCEPT !.requests = @ + 1]
    ELSE setIsRunning(w, FALSE)

\* "Wake lock management effect".  Both functions are async and nobody awaits
\* them: what follows their `await` runs when the promise settles
\* (WakeLockGranted, WakeLockDenied, ReleaseSettled, ReleaseRejected).
requestWakeLock(w) ==
    IF w.wakeLockApi /\ w.isRunning
    THEN [w EXCEPT !.requests = @ + 1]
    ELSE w

\* sentinel.release() releases the lock in the call; its promise settles later
releaseWakeLock(w) ==
    IF w.wakeLockRef # 0
    THEN [w EXCEPT !.held = @ \ {w.wakeLockRef}, !.releasing = @ + 1]
    ELSE w

WakeLockEffect(w) == IF w.isRunning THEN requestWakeLock(w) ELSE releaseWakeLock(w)

WakeLockCleanup(w) == releaseWakeLock(w)

\* React flushes the pending effects: the cleanups, then the bodies
RunEffects(w) ==
    LET a == IF "countdown" \in w.pendingEffects THEN CountdownCleanup(w) ELSE w
        b == IF "wakeLock" \in w.pendingEffects THEN WakeLockCleanup(a) ELSE a
        c == IF "init" \in w.pendingEffects THEN InitEffect(b) ELSE b
        d == IF "countdown" \in w.pendingEffects THEN CountdownEffect(c) ELSE c
        e == IF "wakeLock" \in w.pendingEffects THEN WakeLockEffect(d) ELSE d
    IN  [e EXCEPT !.pendingEffects = {}]

Quiet(w) == w.queue = EmptyQueue /\ w.pendingEffects = {}

\* A discrete event runs renders and effects until nothing is left to do.
RECURSIVE Settle(_)
Settle(w) ==
    IF w.pendingEffects # {} THEN Settle(RunEffects(w))
    ELSE IF w.queue # EmptyQueue THEN Settle(Render(w))
    ELSE w

-----------------------------------------------------------------------------
(* The event handlers.                                                     *)

handleStart(w) == setIsRunning(w, TRUE)

handlePause(w) == setIsRunning(w, FALSE)

\* Mutant of handleReset: the literal default instead of the configured minutes.
handleResetDefault(w) ==
    setTimeLeft(setIsRunning(w, FALSE), DefaultOf(w.mode) * TicksPerMinute)

handleReset(w) ==
    setTimeLeft(setIsRunning(w, FALSE), w.settings[w.mode] * TicksPerMinute)

\* Mutant of handleModeChange: an abandoned countdown counts as a session.
handleModeChangeCounting(w, newMode) ==
    incCompletedPomodoros(setIsRunning(setMode(w, newMode), FALSE))

handleModeChange(w, newMode) == setIsRunning(setMode(w, newMode), FALSE)

\* Number.parseInt on the field's text: an optional sign, then the leading
\* digits; NaN when there is none.
Digits == <<"0", "1", "2", "3", "4", "5", "6", "7", "8", "9">>

IsDigit(c) == \E i \in 1..10 : Digits[i] = c

DigitValue(c) == (CHOOSE i \in 1..10 : Digits[i] = c) - 1

RECURSIVE ParseDigits(_, _)
ParseDigits(s, acc) ==
    IF s = <<>> \/ ~IsDigit(Head(s)) THEN acc
    ELSE ParseDigits(Tail(s), 10 * acc + DigitValue(Head(s)))

ParseInt(s) ==
    LET signed == s # <<>> /\ Head(s) \in {"-", "+"}
        body == IF signed THEN Tail(s) ELSE s
        n == ParseDigits(body, 0)
    IN  IF body = <<>> \/ ~IsDigit(Head(body))
        THEN [nan |-> TRUE, value |-> 0]
        ELSE [nan |-> FALSE, value |-> IF Head(s) = "-" THEN 0 - n ELSE n]

\* `x || d` on a number: NaN and 0 are falsy
OrDefault(x, d) == IF x.nan \/ x.value = 0 THEN d ELSE x.value

onChangeDuration(w, field, text) ==
    setSettings(w, field, OrDefault(ParseInt(text), DefaultOf(field)))

onCheckedChange(w, checked) == setSettings(w, "soundEnabled", checked)

-----------------------------------------------------------------------------
(* The events.                                                             *)

\* A discrete event: the handler has queued its updates on w.
Click(op, arg, w) ==
    Install(Settle([w EXCEPT
        !.lastOp = op, !.lastArg = arg,
        !.scenario = IF op = "start" /\ w.lastOp = "none" THEN 0 ELSE -1]))

Fresh == [World EXCEPT !.expired = "none", !.notified = "none"]

\* The Start button is rendered while isRunning is false.
Start ==
    /\ ~isRunning
    /\ mode = "pomodoro" => completedPomodoros < MaxCompleted
    /\ requests + releasing < MaxInFlight
    /\ Cardinality(held) < MaxHeld
    /\ Click("start", "none", handleStart(Fresh))

\* The Pause button is rendered while isRunning is true.
Pause ==
    /\ isRunning
    /\ Click("pause", "none", handlePause(Fresh))

Reset == Click("reset", "none", handleReset(Fresh))

ModeChange ==
    \E newMode \in TimerMode :
        Click("switch", newMode, handleModeChange(Fresh, newMode))

EditDuration ==
    \E field \in TimerMode, text \in InputTexts :
        Click("edit", "none", onChangeDuration(Fresh, field, text))

ToggleSound ==
    Click("sound", "none", onCheckedChange(Fresh, ~settings.soundEnabled))

\* The callback of a live interval: setTimeLeft((prev) => prev - 1).
Tick ==
    /\ queue.decs < MaxPending
    /\ \E id \in intervals :
        Install([decTimeLeft(World) EXCEPT
                    !.lastOp = "tick", !.lastArg = "none", !.expired = "none",
                    !.notified = "none",
                    !.owed = @ \/ (isRunning /\ QueuedTime(World) = 1),
                    !.scenario = IF @ >= 0 THEN @ + 1 ELSE @])

\* React renders the queued updates (the effects of the last render have run).
RenderStep ==
    /\ pendingEffects = {}
    /\ queue # EmptyQueue
    /\ Install([Render(World) EXCEPT !.lastOp = "render", !.lastArg = "none"])

\* React flushes the effects of the last render.
EffectsStep ==
    /\ pendingEffects # {}
    /\ Install([RunEffects(World) EXCEPT !.lastOp = "effects", !.lastArg = "none"])

\* an id no held sentinel has (the grant overwrites wakeLockRef.current, so
\* the id of a released sentinel it still holds is free again)
FreshSentinel ==
    CHOOSE i \in 1..(Cardinality(held) + 1) : i \notin held

\* navigator.wakeLock.request resolves: `wakeLockRef.current = await ...`
WakeLockGranted ==
    /\ requests > 0
    /\ Install([World EXCEPT
            !.requests = @ - 1, !.wakeLockRef = FreshSentinel,
            !.held = @ \cup {FreshSentinel}])

\* navigator.wakeLock.request rejects: the catch logs
WakeLockDenied ==
    /\ requests > 0
    /\ Install([World EXCEPT !.requests = @ - 1])

\* sentinel.release resolves: `wakeLockRef.current = null`
ReleaseSettled ==
    /\ releasing > 0
    /\ Install([World EXCEPT !.releasing = @ - 1, !.wakeLockRef = 0])

\* sentinel.release rejects: nothing catches, the assignment is skipped
ReleaseRejected ==
    /\ releasing > 0
    /\ Install([World EXCEPT !.releasing = @ - 1])

-----------------------------------------------------------------------------
(* The task list.  Its handlers touch no other state, and each runs with   *)
(* its render inside one discrete event.                                   *)

timerVars ==
    << mode, timeLeft, isRunning, completedPomodoros, settings, queue,
       pendingEffects, intervalRef, intervals, lastOp, lastArg, expired,
       workExpiries, selected, owed, scenario, audio, wakeLockApi,
       wakeLockRef, held, requests, releasing, notified >>

\* String.prototype.trim on a text of blanks and letters
RECURSIVE TrimStart(_)
TrimStart(s) ==
    IF s # <<>> /\ Head(s) = " " THEN TrimStart(Tail(s)) ELSE s

RECURSIVE TrimEnd(_)
TrimEnd(s) ==
    IF s # <<>> /\ s[Len(s)] = " " THEN TrimEnd(SubSeq(s, 1, Len(s) - 1)) ELSE s

Trim(s) == TrimEnd(TrimStart(s))

\* Number.prototype.toString on a natural number: its decimal digits
RECURSIVE NumberToString(_)
NumberToString(n) ==
    IF n < 10 THEN << Digits[n + 1] >>
    ELSE Append(NumberToString(n \div 10), Digits[(n % 10) + 1])

addTask(list, text, clock) ==
    IF Trim(text) # <<>>
    THEN [ tasks |-> Append(list, [ id |-> NumberToString(clock),
                                    text |-> Trim(text),
                                    completed |-> FALSE ]),
           newTask |-> <<>> ]
    ELSE [ tasks |-> list, newTask |-> text ]

toggleTask(list, id) ==
    [ i \in 1..Len(list) |->
        IF list[i].id = id THEN [list[i] EXCEPT !.completed = ~@] ELSE list[i] ]

deleteTask(list, id) == SelectSeq(list, LAMBDA task : task.id # id)

\* onChange of the task field
TypeTask ==
    /\ \E text \in TaskTexts : newTask' = text
    /\ UNCHANGED << tasks, now >>
    /\ UNCHANGED timerVars

\* the Add button, or Enter in the task field
AddTask ==
    /\ Len(tasks) < MaxTasks
    /\ LET r == addTask(tasks, newTask, now)
       IN  tasks' = r.tasks /\ newTask' = r.newTask
    /\ UNCHANGED now
    /\ UNCHANGED timerVars

\* the checkbox of a row
ToggleTask ==
    /\ \E i \in 1..Len(tasks) : tasks' = toggleTask(tasks, tasks[i].id)
    /\ UNCHANGED << newTask, now >>
    /\ UNCHANGED timerVars

\* the delete button of a row
DeleteTask ==
    /\ \E i \in 1..Len(tasks) : tasks' = deleteTask(tasks, tasks[i].id)
    /\ UNCHANGED << newTask, now >>
    /\ UNCHANGED timerVars

\* a millisecond passes
ClockAdvance ==
    /\ now < MaxClock
    /\ now' = now + 1
    /\ UNCHANGED << tasks, newTask >>
    /\ UNCHANGED timerVars

-----------------------------------------------------------------------------

\* the state once the component has mounted, whatever the sinks are like
Mounted ==
    /\ mode = "pomodoro"
    /\ timeLeft = DefaultPomodoro * TicksPerMinute
    /\ isRunning = FALSE
    /\ completedPomodoros = 0
    /\ settings = InitialSettings
    /\ queue = EmptyQueue
    /\ pendingEffects = {}
    /\ intervalRef = 0
    /\ intervals = {}
    /\ lastOp = "none"
    /\ lastArg = "none"
    /\ expired = "none"
    /\ workExpiries = 0
    /\ selected = "none"
    /\ owed = FALSE
    /\ scenario = -1
    /\ tasks = << >>
    /\ newTask = << >>
    /\ now = 0
    /\ wakeLockRef = 0
    /\ held = {}
    /\ requests = 0
    /\ releasing = 0
    /\ notified = "none"

\* a browser with a running audio context and without the Wake Lock API
Init ==
    /\ Mounted
    /\ audio = "running"
    /\ wakeLockApi = FALSE

\* the browsers explored for the sinks: without the Wake Lock API, any audio
\* sink; with it, a running audio context or one whose play() is rejected
InitSinks ==
    /\ Mounted
    /\ \/ wakeLockApi = FALSE /\ audio \in AudioStates
       \/ wakeLockApi = TRUE /\ audio \in {"running", "blocked"}

Next ==
    \/ Start
    \/ Pause
    \/ Reset
    \/ ModeChange
    \/ EditDuration
    \/ ToggleSound
    \/ Tick
    \/ RenderStep
    \/ EffectsStep

Spec == Init /\ [][Next]_vars

\* The timer alone: start, pause, reset, mode change and the countdown, with
\* the settings left as constructed.
NextTimer ==
    \/ Start
    \/ Pause
    \/ Reset
    \/ ModeChange
    \/ Tick
    \/ RenderStep
    \/ EffectsStep

SpecTimer == Init /\ [][NextTimer]_vars

\* The timer and its sinks: the notification sound and the wake lock, in any
\* browser, with the wake-lock promises settling whenever they do.
NextSinks ==
    \/ Start
    \/ Pause
    \/ Reset
    \/ ModeChange
    \/ Tick
    \/ RenderStep
    \/ EffectsStep
    \/ WakeLockGranted
    \/ WakeLockDenied
    \/ ReleaseSettled
    \/ ReleaseRejected

SpecSinks == InitSinks /\ [][NextSinks]_vars

\* The task list alone.
NextTasks ==
    \/ TypeTask
    \/ AddTask
    \/ ToggleTask
    \/ DeleteTask
    \/ ClockAdvance

SpecTasks == Init /\ [][NextTasks]_vars

-----------------------------------------------------------------------------
(* Properties.                                                             *)

\* the configured duration of mode m, in ticks
Duration(m) == settings[m] * TicksPerMinute

\* nothing is queued and no effect is pending
Quiescent == Quiet(World)

\* the tick that reached 0 has been rendered and its expiry has not run yet
ExpiryDue == isRunning /\ timeLeft = 0

\* C1: once a mode change to P (P the active mode included) has taken effect,
\* the mode is P, the time left is P's configured duration and the timer is
\* stopped.
C1_SwitchModeInitialises ==
    lastOp = "switch" =>
        /\ mode = lastArg
        /\ timeLeft = Duration(lastArg)
        /\ ~isRunning

\* C2: editing a configured duration while a phase is counting down (running,
\* or paused part-way) changes neither the time left nor the running flag.
C2_DurationEditKeepsCountdown ==
    [][ ( /\ lastOp' = "edit"
          /\ Quiescent
          /\ isRunning \/ (0 < timeLeft /\ timeLeft < Duration(mode)) )
        => (timeLeft' = timeLeft /\ isRunning' = isRunning) ]_vars

\* C3: the sessions counted are the expiries of a Work phase, and the K-th of
\* them selects longBreak iff K mod 4 = 0, shortBreak otherwise, whatever the
\* user did in between; the selected mode is the one the timer ends up in.
C3_WorkExpiriesCounted ==
    /\ completedPomodoros + queue.completed = workExpiries
    /\ workExpiries > 0 =>
          selected = (IF workExpiries % 4 = 0 THEN "longBreak" ELSE "shortBreak")
    /\ (expired = "pomodoro" /\ Quiescent) => mode = selected

C3_Witness ==
    /\ workExpiries = 4
    /\ completedPomodoros = 4
    /\ expired = "pomodoro"
    /\ mode = "longBreak"
    /\ Quiescent

C5_TimeLeftNonNegative == timeLeft >= 0

\* C6: every tick that brings the time to 0 while running has its expiry
\* applied exactly once, never zero times: the timer never comes to rest with
\* that expiry still missing.
C6_ExpiryNeverMissed == Quiescent => ~owed

\* C7: the timer is never running with no time left.
C7_StoppedAtZero == timeLeft = 0 => ~isRunning

\* C8: start with no time left is a no-op.
C8_StartNeedsTimeLeft ==
    [][ (lastOp' = "start" /\ timeLeft <= 0) =>
            UNCHANGED << isRunning, mode, timeLeft, completedPomodoros >> ]_vars

C10_BreakExpiryReturnsToWork ==
    (expired \in {"shortBreak", "longBreak"} /\ Quiescent) =>
        /\ mode = "pomodoro"
        /\ timeLeft = settings.pomodoro * TicksPerMinute

C10_Witness ==
    /\ expired = "longBreak"
    /\ Quiescent
    /\ completedPomodoros = 4
    /\ settings.pomodoro = 1
    /\ timeLeft = TicksPerMinute

\* C11: once an expiry has been processed the timer is stopped, the mode is
\* the one the expiry selected and the time left is that mode's configured
\* duration; Start in the initial state followed by as many ticks as the
\* default Work duration has ends stopped in shortBreak with the default
\* short break left and one session counted.
C11_ExpiryInitialisesNextPhase ==
    /\ (expired # "none" /\ Quiescent) =>
          /\ ~isRunning
          /\ mode = (IF expired = "pomodoro" THEN selected ELSE "pomodoro")
          /\ timeLeft = Duration(mode)
    /\ (scenario = DefaultPomodoro * TicksPerMinute /\ Quiescent) =>
          /\ mode = "shortBreak"
          /\ timeLeft = DefaultShortBreak * TicksPerMinute
          /\ completedPomodoros = 1
          /\ ~isRunning

C11_Witness ==
    /\ scenario = DefaultPomodoro * TicksPerMinute
    /\ Quiescent
    /\ expired = "pomodoro"
    /\ mode = "shortBreak"
    /\ timeLeft = DefaultShortBreak * TicksPerMinute

\* C12: while the timer is stopped no interval is live and no decrement is
\* queued, so no tick is delivered between a pause, reset, mode change or
\* expiry and the next start, and the time left is not decremented: a step
\* that starts and ends stopped leaves the time left alone or sets it to the
\* configured duration of the mode.
C12_NoTickWhileStopped ==
    /\ [](~isRunning => (intervals = {} /\ queue.decs = 0))
    /\ [][ ~isRunning => lastOp' # "tick" ]_vars
    /\ [][ (~isRunning /\ ~isRunning' /\ timeLeft' # timeLeft) =>
             timeLeft' = settings'[mode'] * TicksPerMinute ]_vars

\* a pause was clicked while an interval was live, and no interval is left
C12_Witness ==
    /\ lastOp = "pause"
    /\ ~isRunning
    /\ 0 < timeLeft /\ timeLeft < Duration(mode)
    /\ intervalRef # 0
    /\ intervals = {}

\* C13: at most one interval is live and it is the one intervalRef holds, and
\* an interval is live only while the timer is running with time left.
C13_OneIntervalWhileCounting ==
    /\ Cardinality(intervals) <= 1
    /\ intervals \subseteq {intervalRef}
    /\ intervals # {} => (isRunning /\ timeLeft > 0)

\* C14: the stored durations are always within the form's ranges: 1..60
\* minutes for Work and Long Break, 1..30 for Short Break.
C14_DurationsInRange ==
    /\ settings.pomodoro \in 1..60
    /\ settings.shortBreak \in 1..30
    /\ settings.longBreak \in 1..60

\* C17: toggling the notification sound while the timer is at rest or counting
\* changes soundEnabled only: mode, time left, running flag, session count
\* and the durations stay as they were.
C17_SoundToggleOnlySound ==
    [][ (lastOp' = "sound" /\ Quiescent) =>
            /\ settings'.soundEnabled = ~settings.soundEnabled
            /\ UNCHANGED << mode, timeLeft, isRunning, completedPomodoros >>
            /\ \A m \in TimerMode : settings'[m] = settings[m] ]_vars

\* C18: Start clicked right after Pause resumes the countdown: same mode, same
\* time left, same session count, running again; and a second pause right
\* after a pause would change nothing.
C18_PauseThenStartResumes ==
    /\ [][ (lastOp = "pause" /\ lastOp' = "start") =>
              /\ isRunning'
              /\ UNCHANGED << mode, timeLeft, completedPomodoros >> ]_vars
    /\ [](lastOp = "pause" =>
            LET again == Settle(handlePause(Fresh))
            IN  /\ again.mode = mode
                /\ again.timeLeft = timeLeft
                /\ again.isRunning = isRunning
                /\ again.completedPomodoros = completedPomodoros)

\* C19: a running timer always has something scheduled: once its renders and
\* effects have run, an interval is live.
C19_RunningIsScheduled ==
    (isRunning /\ Quiescent) => intervals # {}

\* C16: no two tasks of the list have the same id, and a toggle or a delete
\* changes at most one task.
C16_TaskIdsUnique ==
    /\ [](\A i, j \in 1..Len(tasks) : tasks[i].id = tasks[j].id => i = j)
    /\ [][ /\ Len(tasks') < Len(tasks) => Len(tasks') = Len(tasks) - 1
           /\ Len(tasks') = Len(tasks) =>
                 Cardinality({ i \in 1..Len(tasks) : tasks'[i] # tasks[i] }) <= 1
         ]_vars

\* C20: once the timer is stopped and no wake-lock promise is pending, no wake
\* lock is held; and a wake lock that is held is the one wakeLockRef holds.
C20_WakeLockFollowsRunning ==
    /\ (~isRunning /\ Quiescent /\ requests = 0 /\ releasing = 0) => held = {}
    /\ held \subseteq {wakeLockRef}

\* the timer's part of a state
TimerPart(w) ==
    << w.mode, w.timeLeft, w.isRunning, w.completedPomodoros, w.settings,
       w.queue, w.pendingEffects, w.intervalRef, w.intervals >>

\* the state w in a browser whose sinks all work and have nothing pending
Healthy(w) ==
    [w EXCEPT !.audio = "running", !.wakeLockApi = TRUE, !.wakeLockRef = 0,
              !.held = {}, !.requests = 0, !.releasing = 0]

\* C15: what the sinks do never reaches the timer.  The timer's part of the
\* state after an event (start, pause, reset, mode change, tick, render,
\* effects with the expiry) is the one the same event yields in a browser
\* whose sinks all work, and the settling of a wake-lock promise, resolved or
\* rejected, leaves the timer's part as it is.
C15_SinksNeverReachTimer ==
    [][ LET after == TimerPart(World')
            settled == requests' < requests \/ releasing' < releasing
            event(op) == ~settled /\ lastOp' = op
        IN  /\ settled => after = TimerPart(World)
            /\ event("start") =>
                  after = TimerPart(Settle(handleStart(Healthy(Fresh))))
            /\ event("pause") =>
                  after = TimerPart(Settle(handlePause(Healthy(Fresh))))
            /\ event("reset") =>
                  after = TimerPart(Settle(handleReset(Healthy(Fresh))))
            /\ \A m \in TimerMode :
                  (event("switch") /\ lastArg' = m) =>
                      after = TimerPart(Settle(handleModeChange(Healthy(Fresh), m)))
            /\ event("tick") => after = TimerPart(decTimeLeft(World))
            /\ event("render") => after = TimerPart(Render(Healthy(World)))
            /\ event("effects") => after = TimerPart(RunEffects(Healthy(World))) ]_vars

\* an expiry has been processed although the notification could not play and
\* the wake lock had been denied
C15_Witness ==
    /\ expired = "pomodoro"
    /\ Quiescent
    /\ notified = "silent"
    /\ audio = "blocked"
    /\ wakeLockApi
    /\ wakeLockRef = 0
    /\ held = {}
    /\ requests = 0
    /\ releasing = 0
    /\ mode = "shortBreak"
    /\ completedPomodoros = 1
    /\ ~isRunning

====
